---- MODULE Spec2Model ----
(***************************************************************************)
(* Training loop of the geometry regularized autoencoders (GRAE).          *)
(*                                                                         *)
(*   grae/models/grae_models.py : AE, GRAEBase  (early stopping,           *)
(*                                checkpointing, lambda relaxation)        *)
(*   src/models/models.py       : AE, GRAE, SGRAE (two phase fit,          *)
(*                                drop_lam schedule)                       *)
(*   src/data/base.py           : BaseDataset (splits, sample indices)     *)
(*                                                                         *)
(* One model instance is constructed (Init) and fitted up to MaxFits       *)
(* times.  A fit call is a sequence of steps: the set up, the metrics of   *)
(* epoch 0, one step per mini-batch, one step per end of epoch, and the    *)
(* restoration of the checkpoint.  transform can be called on a model      *)
(* whose fit has returned.                                                 *)
(*                                                                         *)
(* Further specifications exercise one part alone:                         *)
(*   SpecData      : BaseDataset construction and __getitem__              *)
(*   SpecLoss      : SGRAE.apply_loss on one batch                         *)
(*   SpecTransform : transform for any dataset and batch size              *)
(*   SpecCalls     : construct, fit, save and load of AE objects           *)
(***************************************************************************)
EXTENDS Integers, Sequences, FiniteSets, TLC

\* ---------------------------------------------------------------- bounds
MaxEpochs == 3
MaxPatience == 3
MaxLoss == 2
MaxFits == 2
NumSamples == 3
BatchSize == 2
MaxBatch == 5
MaxCalls == 2

\* lam=100, the default regularization factor of GRAEBase.__init__
LAM == 100

\* np.inf: above every finite loss.  A NaN validation loss compares like it
\* on the left of "<" (never below the running minimum).
Inf == MaxLoss + 1
LossVals == 0..Inf

\* Python's None: an argument not given, a value not computed yet
None == -1

\* write_path/checkpoint.pt: absent, or left there by somebody else
NoFile == [id |-> -2, vl |-> None]
StaleFile == [id |-> -1, vl |-> None]

\* None where a sample shape is expected (self.torch_module is None,
\* self.data_shape = None)
NoShape == << >>

\* the value of a call that returned None or has not returned
NoOut == [kind |-> "none", rows |-> << >>, calls |-> 0]

NoBatch == [lam |-> None, epoch |-> None, n |-> 0, cmp |-> {}, pairs |-> {}]

VARIABLES
    cfg,                    \* the constructor arguments (never modified)
    pc,                     \* position in fit: idle, log0, train, restore
                            \* (grae_models.py); ltrain, switch (models.py)
    phase,                  \* models.py: which super().fit call runs (1, 2)
    epochs,                 \* models.py: the epochs argument of AE.fit
    fitNo,                  \* number of fit calls started on the instance
    epoch,                  \* loop variable of fit
    lam,                    \* self.lam
    early_stopping_count,   \* self.early_stopping_count
    current_loss_min,       \* self.current_loss_min
    params,                 \* torch_module parameters: [id, vl]
    ckpt,                   \* the file write_path/checkpoint.pt
    x,                      \* the dataset the loader iterates
    target_embedding,       \* row r holds the embedding of this sample
    remaining,              \* positions the shuffled loader still has to yield
    hist,                   \* what happened in the current fit call
    source,                 \* base.py: the arrays a BaseDataset is built from
    split_perm,             \* base.py: the shuffle train_test_split draws for the seed
    n_train,                \* base.py: the train size split_ratio gives
    dataset,                \* base.py: the BaseDataset constructed
    item,                   \* base.py: what the last __getitem__ returned
    torch_module,           \* self.torch_module: the sample shape it was built
                            \* for, NoShape while it is None
    data_shape,             \* self.data_shape (grae_models.py)
    optimizer,              \* self.optimizer is not None
    training,               \* torch_module.training: train() or eval() mode
    saved,                  \* the checkpoint file written by save(path)
    out                     \* what the last call returned or raised

fitVars == <<cfg, pc, phase, epochs, fitNo, epoch, lam, early_stopping_count,
             current_loss_min, params, ckpt, x, target_embedding, remaining, hist>>
dataVars == <<source, split_perm, n_train, dataset, item>>
ioVars == <<torch_module, data_shape, optimizer, training, saved, out>>
vars == <<fitVars, dataVars, ioVars>>

\* ------------------------------------------------------------- datasets
\* A dataset object maps a position to what __getitem__ returns there: the
\* sample s (an id) and the index idx yielded with it.
\* BaseDataset.__getitem__: (self.data[index], self.targets[index], index)
GetItemShifted(data, index) == [s |-> data[index], idx |-> index + 1]

GetItem(data, index) == [s |-> data[index], idx |-> index]

BaseDataset(data) == [i \in DOMAIN data |-> GetItem(data, i)]

len(ds) == Cardinality(DOMAIN ds)

\* the source samples, as ids: position i holds sample 10 + i
SourceData(n) == [i \in 0..(n - 1) |-> 10 + i]

\* the dataset X handed to fit
X == BaseDataset(SourceData(NumSamples))

\* X.numpy(): the samples in the order of the dataset
numpy(ds) == [i \in DOMAIN ds |-> ds[i].s]

\* embedder.fit_transform(x): one row per sample of x.numpy(), in its order;
\* a row is named by the sample it embeds
fit_transform(ds) == numpy(ds)

\* X.subset(k): a dataset of k of the samples, each keeping the index it
\* has in X
Selections(n, k) ==
    {f \in [0..(k - 1) -> 0..(n - 1)] : \A i, j \in 0..(k - 1) : i < j => f[i] < f[j]}

subset(ds, k) == {[i \in 0..(k - 1) |-> ds[f[i]]] : f \in Selections(len(ds), k)}

\* BaseDataset.get_split: train_test_split(np.arange(n), train_size, seed)
\* shuffles the positions and cuts them in two; x[train_idx] or x[test_idx]
\* are the samples of the split, in the order of the shuffle.
train_idx(perm, k) == [i \in 0..(k - 1) |-> perm[i]]

test_idx(perm, k) == [i \in 0..(Cardinality(DOMAIN perm) - k - 1) |-> perm[k + i]]

Take(data, idx) == [i \in DOMAIN idx |-> data[idx[i]]]

get_split(data, split, perm, k) ==
    IF split = "none" THEN data
    ELSE IF split = "train" THEN Take(data, train_idx(perm, k))
    ELSE Take(data, test_idx(perm, k))

\* BaseDataset.__init__: the object built, or the exception of a bad split
NoDataset == [split |-> "", raised |-> FALSE, items |-> << >>]

BaseDataset_init(data, split, perm, k) ==
    IF split \notin {"train", "test", "none"}
    THEN [split |-> split, raised |-> TRUE, items |-> << >>]
    ELSE [split |-> split, raised |-> FALSE,
          items |-> BaseDataset(get_split(data, split, perm, k))]

NoItem == [s |-> None, idx |-> None]

Shuffles(n) ==
    {f \in [0..(n - 1) -> 0..(n - 1)] : \A i, j \in 0..(n - 1) : i # j => f[i] # f[j]}

\* ----------------------------------------------------------- the loader
\* DataLoader(x, batch_size, shuffle=True): a batch is the next batch_size
\* positions of a random permutation, collated position by position.  The
\* permutation is drawn lazily: any arrangement of any positions not yet
\* yielded can come next.
Min(a, b) == IF a < b THEN a ELSE b

Arrangements(S, k) ==
    {f \in [0..(k - 1) -> S] : \A i, j \in 0..(k - 1) : i # j => f[i] # f[j]}

NextBatches(rem, bs) == Arrangements(rem, Min(bs, Cardinality(rem)))

get_loader(data) == DOMAIN data

\* ------------------------------------------------------------ the losses
\* The collated batch: position j holds the sample and the index that the
\* dataset yields at the j-th position drawn.
Collate(ds, batch) == [j \in DOMAIN batch |-> ds[batch[j]]]

\* target_embedding[idx]: the rows looked up for a batch
RowsByPosition(b) == [j \in DOMAIN b |-> j]

Rows(b) == [j \in DOMAIN b |-> b[j].idx]

\* GRAEBase.compute_loss: what enters criterion(z, target_embedding[idx]),
\* per batch position: the sample whose latent code it is, the index yielded
\* with it, the target row compared with it and the sample that row embeds.
\* Nothing when lam is 0.
compute_loss(l, b, target) ==
    IF l > 0
    THEN {[pos |-> j, s |-> b[j].s, idx |-> b[j].idx, row |-> Rows(b)[j],
           of |-> target[Rows(b)[j]]] : j \in DOMAIN b}
    ELSE {}

\* ---------------------------------------------------------- the module
\* x[0][0].shape: the shape of one sample of the dataset X
XShape == <<4>>

\* AE.init_torch_module(data_shape): an MLP for flat samples, a
\* convolutional module for 3D samples, an exception for any other rank
init_torch_module(shape) ==
    IF Len(shape) \in {1, 3}
    THEN [raised |-> FALSE, module |-> shape]
    ELSE [raised |-> TRUE, module |-> NoShape]

\* fit: `if self.torch_module is None: self.init_torch_module(...)`
fetch_module(module, shape) ==
    IF module = NoShape THEN init_torch_module(shape)
    ELSE [raised |-> FALSE, module |-> module]

\* torch_module.eval(): the mode afterwards
eval_mode_skipped(t) == t

eval_mode(t) == FALSE

\* DataLoader(x, batch_size, shuffle=False) on n samples: the positions in
\* order, batch_size at a time, the last batch with what is left
BatchesDropLast(n, b) ==
    [k \in 0..(n \div b - 1) |-> [j \in 0..(b - 1) |-> k * b + j]]

Batches(n, b) ==
    [k \in 0..((n + b - 1) \div b - 1) |->
        [j \in 0..(Min(b, n - k * b) - 1) |-> k * b + j]]

\* torch_module.encoder(batch): one row per sample of the batch, the code
\* of that sample under the parameters p
encoder(p, b) == [j \in DOMAIN b |-> [s |-> b[j].s, by |-> p.id]]

\* np.concatenate(z): the rows of the arrays of z, one array after another
RECURSIVE Offset(_, _)
Offset(zs, k) == IF k = 0 THEN 0 ELSE Offset(zs, k - 1) + len(zs[k - 1])

concatenate(zs) ==
    [i \in 0..(Offset(zs, len(zs)) - 1) |->
        LET k == CHOOSE k \in DOMAIN zs : Offset(zs, k) <= i /\ i < Offset(zs, k + 1)
        IN zs[k][i - Offset(zs, k)]]

\* AE.transform(x) after its call of eval()
transform(ds, b, p) ==
    concatenate([k \in DOMAIN Batches(len(ds), b) |->
                    encoder(p, Collate(ds, Batches(len(ds), b)[k]))])

\* ------------------------------------------------- early stopping state
\* AE.log_metrics_val, line 285
ValImproved(val_mse, min) == val_mse < min

\* AE.fit, line 176
EarlyStopLate(count, patience) == count = patience + 1

EarlyStop(count, patience) == count = patience

\* int(self.patience / 2)
HalfPatience(patience) == patience \div 2

\* GRAEBase.end_epoch: the value of lam after the call
end_epoch_revert(l, count) ==
    IF cfg.relax /\ count = HalfPatience(cfg.patience) THEN 0 ELSE cfg.lam

end_epoch(l, count) ==
    IF cfg.relax /\ l > 0 /\ count = HalfPatience(cfg.patience) THEN 0 ELSE l

\* eval_MSE(val_loader) is a function of the parameters: parameters already
\* evaluated give the same loss again, new ones any loss.
eval_MSE(p) == IF p.vl = None THEN LossVals ELSE {p.vl}

NewHist ==
    [lastImp |-> None, runMin |-> None, bestParams |-> None,
     exitEpoch |-> None, broke |-> FALSE, reachedHalf |-> FALSE,
     firstLam |-> None, lastBatch |-> NoBatch,
     raised |-> FALSE, phase2Epochs |-> 0,
     rng |-> 0, shuffle |-> None]

\* the bookkeeping of one validation evaluation of loss v at epoch e
Observe(h, v, e, p) ==
    [h EXCEPT !.lastImp = IF v < current_loss_min THEN e ELSE @,
              !.runMin = IF @ = None \/ v < @ THEN v ELSE @,
              !.bestParams = IF h.runMin = None \/ v < h.runMin THEN p.id ELSE @]

\* Every iteration over a DataLoader(shuffle=True) draws its permutation from
\* the random source that torch.manual_seed(self.random_state) resets at the
\* start of fit.  rng counts the draws made since; shuffle is the number of
\* the draw that orders the mini-batches of the current epoch.
\* log_metrics: log_metrics_train iterates self.loader when comet_exp is
\* given, log_metrics_val iterates self.val_loader when there is a
\* validation split.
IterMetrics(h) ==
    [h EXCEPT !.rng = @ + (IF cfg.comet_exp THEN 1 ELSE 0)
                        + (IF cfg.data_val THEN 1 ELSE 0)]

\* `for batch in self.loader` of the training loop
IterTrain(h) == [h EXCEPT !.shuffle = h.rng, !.rng = @ + 1]

\* range(1, self.epochs + 1) is empty when epochs is 0: the loop is left
\* with no epoch executed
LoopEntry(h) == IF cfg.epochs >= 1 THEN h ELSE [h EXCEPT !.exitEpoch = 0]

\* -------------------------------------------------------------- the model
\* grae_models.py: GRAEBase(lam, relax, epochs, patience, data_val, ...).
\* The plain AE is the case lam = 0, relax = FALSE.
Configs ==
    [cls : {"GRAEBase"},
     epochs : 0..MaxEpochs,
     patience : 0..MaxPatience,
     data_val : BOOLEAN,
     comet_exp : BOOLEAN,
     relax : BOOLEAN,
     lam : {0, LAM},
     batch_size : {BatchSize},
     drop_lam : {None},
     max_grae : {None}]

\* AE.__init__: no torch module, no optimizer, no data shape
InitIO ==
    /\ torch_module = NoShape
    /\ data_shape = NoShape
    /\ optimizer = FALSE
    /\ training = FALSE
    /\ saved = NoFile
    /\ out = NoOut

InitAE ==
    /\ cfg \in Configs
    /\ pc = "idle"
    /\ phase = 0
    /\ epochs = cfg.epochs
    /\ fitNo = 0
    /\ epoch = 0
    /\ lam = cfg.lam
    /\ early_stopping_count = 0
    /\ current_loss_min = Inf
    /\ params = [id |-> 0, vl |-> None]
    /\ ckpt \in {NoFile, StaleFile}
    /\ x = X
    /\ target_embedding = << >>
    /\ remaining = {}
    /\ hist = NewHist
    /\ source = SourceData(NumSamples)
    /\ split_perm = [i \in 0..(NumSamples - 1) |-> i]
    /\ n_train = NumSamples
    /\ dataset = NoDataset
    /\ item = NoItem
    /\ InitIO

\* GRAEBase.fit and AE.fit up to the first call of log_metrics.  The
\* parameters at entry are numbered 0 in this call.
FitStart ==
    /\ pc = "idle"
    /\ cfg.cls = "GRAEBase"
    /\ fitNo < MaxFits
    /\ fitNo' = fitNo + 1
    /\ target_embedding' = fit_transform(x)
    /\ params' = [params EXCEPT !.id = 0]
    /\ remaining' = {}
    /\ epoch' = 0
    /\ hist' = NewHist
    /\ pc' = "log0"
    /\ UNCHANGED <<cfg, phase, epochs, lam, early_stopping_count, current_loss_min, ckpt, x>>
    /\ data_shape' = XShape
    /\ torch_module' = fetch_module(torch_module, XShape).module
    /\ optimizer' = TRUE
    /\ training' = TRUE
    /\ out' = NoOut
    /\ UNCHANGED <<dataVars, saved>>

\* AE.log_metrics_val: the new <<current_loss_min, early_stopping_count,
\* checkpoint file>> after a validation loss of val_mse
log_metrics_val(val_mse, p) ==
    IF ValImproved(val_mse, current_loss_min)
    THEN <<val_mse, 0, p>>
    ELSE <<current_loss_min, early_stopping_count + 1, ckpt>>

\* self.log_metrics(0), then the entry of the epoch loop
LogMetrics0 ==
    /\ pc = "log0"
    /\ IF cfg.data_val
       THEN \E v \in eval_MSE(params) :
              LET p == [params EXCEPT !.vl = v]
                  r == log_metrics_val(v, p)
              IN /\ params' = p
                 /\ current_loss_min' = r[1]
                 /\ early_stopping_count' = r[2]
                 /\ ckpt' = r[3]
                 /\ hist' = IF cfg.epochs >= 1
                            THEN IterTrain(IterMetrics(Observe(hist, v, 0, p)))
                            ELSE LoopEntry(IterMetrics(Observe(hist, v, 0, p)))
       ELSE /\ UNCHANGED <<params, current_loss_min, early_stopping_count, ckpt>>
            /\ hist' = IF cfg.epochs >= 1
                       THEN IterTrain(IterMetrics(hist))
                       ELSE LoopEntry(IterMetrics(hist))
    /\ IF cfg.epochs >= 1
       THEN /\ epoch' = 1
            /\ remaining' = get_loader(x)
            /\ pc' = "train"
       ELSE /\ UNCHANGED <<epoch, remaining>>
            /\ pc' = "restore"
    /\ UNCHANGED <<cfg, phase, epochs, fitNo, lam, x, target_embedding>>
    /\ UNCHANGED <<dataVars, ioVars>>

\* one mini-batch: zero_grad, train_body (forward pass and loss), step
TrainBatch ==
    /\ pc = "train"
    /\ remaining # {}
    /\ \E batch \in NextBatches(remaining, cfg.batch_size) :
         /\ remaining' = remaining \ {batch[j] : j \in DOMAIN batch}
         /\ hist' = [hist EXCEPT
                !.lastBatch = [lam |-> lam, epoch |-> epoch, n |-> len(x),
                               cmp |-> compute_loss(lam, Collate(x, batch), target_embedding),
                               pairs |-> {}],
                !.firstLam = IF @ = None THEN lam ELSE @]
    /\ params' = [id |-> params.id + 1, vl |-> None]
    /\ UNCHANGED <<cfg, pc, phase, epochs, fitNo, epoch, lam, early_stopping_count,
                   current_loss_min, ckpt, x, target_embedding>>
    /\ UNCHANGED <<dataVars, ioVars>>

\* the end of an epoch: log_metrics(epoch), end_epoch(epoch), the early
\* stopping test, and either the next epoch or the exit of the loop
EpochEnd ==
    /\ pc = "train"
    /\ remaining = {}
    /\ \E v \in (IF cfg.data_val THEN eval_MSE(params) ELSE {None}) :
         LET p == [params EXCEPT !.vl = v]
             r == IF cfg.data_val THEN log_metrics_val(v, p)
                  ELSE <<current_loss_min, early_stopping_count, ckpt>>
             l == end_epoch(lam, r[2])
             stop == EarlyStop(r[2], cfg.patience)
             h == IterMetrics(IF cfg.data_val THEN Observe(hist, v, epoch, p) ELSE hist)
         IN /\ params' = p
            /\ current_loss_min' = r[1]
            /\ early_stopping_count' = r[2]
            /\ ckpt' = r[3]
            /\ lam' = l
            /\ IF stop \/ epoch = cfg.epochs
               THEN /\ pc' = "restore"
                    /\ UNCHANGED <<epoch, remaining>>
                    /\ hist' = [h EXCEPT !.exitEpoch = epoch, !.broke = stop,
                                  !.reachedHalf = @ \/ r[2] >= HalfPatience(cfg.patience),
                                  !.lastBatch = NoBatch]
               ELSE /\ pc' = "train"
                    /\ epoch' = epoch + 1
                    /\ remaining' = get_loader(x)
                    /\ hist' = [IterTrain(h) EXCEPT
                                  !.reachedHalf = @ \/ r[2] >= HalfPatience(cfg.patience),
                                  !.lastBatch = NoBatch]
    /\ UNCHANGED <<cfg, phase, epochs, fitNo, x, target_embedding>>
    /\ UNCHANGED <<dataVars, ioVars>>

\* AE.load: the parameters stored in the file
load(file) == [id |-> file.id, vl |-> file.vl]

\* os.remove(checkpoint_path): the file afterwards
os_remove_skipped(file) == file

os_remove(file) == NoFile

\* the end of fit: load the checkpoint if the file exists, and remove it
Restore ==
    /\ pc = "restore"
    /\ IF ckpt # NoFile
       THEN /\ params' = load(ckpt)
            /\ ckpt' = os_remove(ckpt)
       ELSE UNCHANGED <<params, ckpt>>
    /\ pc' = "idle"
    /\ UNCHANGED <<cfg, phase, epochs, fitNo, epoch, lam, early_stopping_count,
                   current_loss_min, x, target_embedding, remaining, hist>>
    /\ UNCHANGED <<dataVars, ioVars>>

NextAE == FitStart \/ LogMetrics0 \/ TrainBatch \/ EpochEnd \/ Restore

\* ------------------------------------------------------------- models.py
\* GRAE(lam, drop_lam, max_grae, epochs, ...) and SGRAE(lam, drop_lam,
\* epochs, ...) of models.py: no validation split, no checkpoint.
\* GRAE takes drop_lam as a fraction of the epochs, given here in halves
\* (0, .5 the default, 1) or None; SGRAE takes a number of epochs or None.
ConfigsGRAE ==
    [cls : {"GRAE"},
     epochs : 0..MaxEpochs,
     patience : {0},
     data_val : {FALSE},
     relax : {FALSE},
     lam : {0, LAM},
     batch_size : {BatchSize},
     drop_lam : {None, 0, 1, 2},
     max_grae : {None, NumSamples - 1, NumSamples}]

ConfigsSGRAE ==
    [cls : {"SGRAE"},
     epochs : 0..MaxEpochs,
     patience : {0},
     data_val : {FALSE},
     relax : {FALSE},
     lam : {0, LAM},
     batch_size : {BatchSize},
     drop_lam : {None} \cup 0..MaxEpochs,
     max_grae : {None}]

\* GRAE.__init__: self.drop_lam
GRAE_drop_lam(c) ==
    IF c.drop_lam # None THEN (c.drop_lam * c.epochs) \div 2 ELSE c.epochs

\* GRAE.fit: grae_data
grae_data_all(c) == {X}

grae_data(c) ==
    IF c.max_grae # None /\ len(X) > c.max_grae THEN subset(X, c.max_grae) ELSE {X}

\* GRAE.apply_loss: criterion(z, self.z[idx]).  An index that is no row of
\* self.z raises.
GRAE_apply_loss(l, b, z) ==
    IF l > 0
    THEN IF \E j \in DOMAIN b : Rows(b)[j] \notin DOMAIN z
         THEN [raised |-> TRUE, cmp |-> {}, pairs |-> {}]
         ELSE [raised |-> FALSE, pairs |-> {},
               cmp |-> {[pos |-> j, s |-> b[j].s, idx |-> b[j].idx,
                         row |-> Rows(b)[j], of |-> z[Rows(b)[j]]] : j \in DOMAIN b}]
    ELSE [raised |-> FALSE, cmp |-> {}, pairs |-> {}]

\* SGRAE.apply_loss: the latent distance of batch positions <<p1, p2>> is
\* compared with the reference distance d_mx[i1, i2].  z[:half] - z[half:]
\* broadcasts when one side has one row (or none) and raises otherwise when
\* the two sides differ in length.
SGRAE_apply_loss(l, b) ==
    LET n == Cardinality(DOMAIN b)
        half == n \div 2
        rest == n - half
    IN IF l > 0
       THEN IF rest = half
            THEN [raised |-> FALSE, cmp |-> {},
                  pairs |-> {[p1 |-> j, p2 |-> j + half,
                              i1 |-> b[j].idx, i2 |-> b[j + half].idx] : j \in 0..(half - 1)}]
            ELSE IF half = 0
            THEN [raised |-> FALSE, cmp |-> {}, pairs |-> {}]
            ELSE IF half = 1
            THEN [raised |-> FALSE, cmp |-> {},
                  pairs |-> {[p1 |-> 0, p2 |-> k,
                              i1 |-> b[0].idx, i2 |-> b[1].idx] : k \in 1..(n - 1)}]
            ELSE [raised |-> TRUE, cmp |-> {}, pairs |-> {}]
       ELSE [raised |-> FALSE, cmp |-> {}, pairs |-> {}]

apply_loss(l, b, z) ==
    IF cfg.cls = "GRAE" THEN GRAE_apply_loss(l, b, z) ELSE SGRAE_apply_loss(l, b)

\* SGRAE.end_epoch: the value of lam after the call
SGRAE_end_epoch(l, e) ==
    IF cfg.drop_lam # None /\ e = cfg.drop_lam - 1 THEN 0 ELSE l

InitLegacy ==
    /\ cfg \in ConfigsGRAE \cup ConfigsSGRAE
    /\ pc = "idle"
    /\ phase = 0
    /\ epochs = cfg.epochs
    /\ fitNo = 0
    /\ epoch = 0
    /\ lam = cfg.lam
    /\ early_stopping_count = 0
    /\ current_loss_min = Inf
    /\ params = [id |-> 0, vl |-> None]
    /\ ckpt = NoFile
    /\ x = X
    /\ target_embedding = << >>
    /\ remaining = {}
    /\ hist = NewHist
    /\ source = SourceData(NumSamples)
    /\ split_perm = [i \in 0..(NumSamples - 1) |-> i]
    /\ n_train = NumSamples
    /\ dataset = NoDataset
    /\ item = NoItem
    /\ InitIO

\* GRAE.fit up to the loop of the first super().fit(grae_data, self.drop_lam)
GRAEFit ==
    /\ pc = "idle"
    /\ cfg.cls = "GRAE"
    /\ fitNo < MaxFits
    /\ fitNo' = fitNo + 1
    /\ \E d \in grae_data(cfg) :
         /\ x' = d
         /\ target_embedding' = fit_transform(d)
         /\ remaining' = IF GRAE_drop_lam(cfg) >= 1 THEN get_loader(d) ELSE {}
    /\ phase' = 1
    /\ epochs' = GRAE_drop_lam(cfg)
    /\ epoch' = 0
    /\ params' = [params EXCEPT !.id = 0]
    /\ hist' = NewHist
    /\ pc' = IF GRAE_drop_lam(cfg) >= 1 THEN "ltrain" ELSE "switch"
    /\ UNCHANGED <<cfg, lam, early_stopping_count, current_loss_min, ckpt>>
    /\ torch_module' = fetch_module(torch_module, XShape).module
    /\ optimizer' = TRUE
    /\ training' = TRUE
    /\ out' = NoOut
    /\ UNCHANGED <<dataVars, data_shape, saved>>

\* SGRAE.fit up to the loop of super().fit(X)
SGRAEFit ==
    /\ pc = "idle"
    /\ cfg.cls = "SGRAE"
    /\ fitNo < MaxFits
    /\ fitNo' = fitNo + 1
    /\ x' = X
    /\ remaining' = IF cfg.epochs >= 1 THEN get_loader(X) ELSE {}
    /\ phase' = 1
    /\ epochs' = cfg.epochs
    /\ epoch' = 0
    /\ params' = [params EXCEPT !.id = 0]
    /\ hist' = NewHist
    /\ pc' = IF cfg.epochs >= 1 THEN "ltrain" ELSE "idle"
    /\ UNCHANGED <<cfg, lam, early_stopping_count, current_loss_min, ckpt,
                   target_embedding>>
    /\ torch_module' = fetch_module(torch_module, XShape).module
    /\ optimizer' = TRUE
    /\ training' = TRUE
    /\ out' = NoOut
    /\ UNCHANGED <<dataVars, data_shape, saved>>

\* models.py, one mini-batch: zero_grad, train_body, step; an exception of
\* apply_loss ends fit
LTrainBatch ==
    /\ pc = "ltrain"
    /\ remaining # {}
    /\ \E batch \in NextBatches(remaining, cfg.batch_size) :
         LET r == apply_loss(lam, Collate(x, batch), target_embedding)
         IN IF r.raised
            THEN /\ pc' = "idle"
                 /\ hist' = [hist EXCEPT !.raised = TRUE, !.lastBatch = NoBatch]
                 /\ UNCHANGED <<params, remaining>>
            ELSE /\ pc' = pc
                 /\ remaining' = remaining \ {batch[j] : j \in DOMAIN batch}
                 /\ params' = [id |-> params.id + 1, vl |-> None]
                 /\ hist' = [hist EXCEPT
                        !.lastBatch = [lam |-> lam, epoch |-> epoch, n |-> len(x),
                                       cmp |-> r.cmp, pairs |-> r.pairs],
                        !.firstLam = IF @ = None THEN lam ELSE @]
    /\ UNCHANGED <<cfg, phase, epochs, fitNo, epoch, lam, early_stopping_count,
                   current_loss_min, ckpt, x, target_embedding>>
    /\ UNCHANGED <<dataVars, ioVars>>

\* models.py, the end of an epoch: end_epoch(epoch), then the next epoch or
\* the return of AE.fit
LEpochEnd ==
    /\ pc = "ltrain"
    /\ remaining = {}
    /\ lam' = IF cfg.cls = "SGRAE" THEN SGRAE_end_epoch(lam, epoch) ELSE lam
    /\ hist' = [hist EXCEPT !.lastBatch = NoBatch,
                            !.phase2Epochs = IF phase = 2 THEN @ + 1 ELSE @]
    /\ IF epoch + 1 < epochs
       THEN /\ epoch' = epoch + 1
            /\ remaining' = get_loader(x)
            /\ pc' = "ltrain"
       ELSE /\ UNCHANGED <<epoch, remaining>>
            /\ pc' = IF cfg.cls = "GRAE" /\ phase = 1 THEN "switch" ELSE "idle"
    /\ UNCHANGED <<cfg, phase, epochs, fitNo, early_stopping_count,
                   current_loss_min, params, ckpt, x, target_embedding>>
    /\ UNCHANGED <<dataVars, ioVars>>

\* GRAE.fit after the first super().fit: the switch to the whole dataset
\* without the geometric loss for the remaining epochs, or the return
GRAESwitch ==
    /\ pc = "switch"
    /\ IF GRAE_drop_lam(cfg) < cfg.epochs
       THEN /\ lam' = 0
            /\ x' = X
            /\ phase' = 2
            /\ epochs' = cfg.epochs - GRAE_drop_lam(cfg)
            /\ epoch' = 0
            /\ remaining' = get_loader(X)
            /\ pc' = "ltrain"
       ELSE /\ pc' = "idle"
            /\ UNCHANGED <<lam, x, phase, epochs, epoch, remaining>>
    /\ UNCHANGED <<cfg, fitNo, early_stopping_count, current_loss_min, params,
                   ckpt, target_embedding, hist>>
    /\ UNCHANGED <<dataVars, ioVars>>

NextLegacy == GRAEFit \/ SGRAEFit \/ LTrainBatch \/ LEpochEnd \/ GRAESwitch

\* ---------------------------------------------------------------- base.py
\* Datasets built from source arrays of 2..NumSamples samples, for any
\* shuffle of train_test_split and any train size that leaves both splits
\* non empty.
InitData ==
    /\ \E n \in 2..NumSamples :
         /\ source = SourceData(n)
         /\ split_perm \in Shuffles(n)
         /\ n_train \in 1..(n - 1)
    /\ dataset = NoDataset
    /\ item = NoItem
    /\ cfg = [cls |-> "none", epochs |-> 0, patience |-> 0, data_val |-> FALSE,
              relax |-> FALSE, lam |-> 0, batch_size |-> BatchSize,
              drop_lam |-> None, max_grae |-> None]
    /\ pc = "data"
    /\ phase = 0
    /\ epochs = 0
    /\ fitNo = 0
    /\ epoch = 0
    /\ lam = 0
    /\ early_stopping_count = 0
    /\ current_loss_min = Inf
    /\ params = [id |-> 0, vl |-> None]
    /\ ckpt = NoFile
    /\ x = X
    /\ target_embedding = << >>
    /\ remaining = {}
    /\ hist = NewHist
    /\ InitIO

\* BaseDataset(x, y, split, split_ratio, seed)
NewDataset ==
    /\ pc = "data"
    /\ \E split \in {"train", "test", "none", "val"} :
         dataset' = BaseDataset_init(source, split, split_perm, n_train)
    /\ item' = NoItem
    /\ UNCHANGED <<ioVars, fitVars, source, split_perm, n_train>>

\* dataset[index]
GetItemCall ==
    /\ pc = "data"
    /\ ~dataset.raised
    /\ \E index \in DOMAIN dataset.items : item' = dataset.items[index]
    /\ UNCHANGED <<ioVars, fitVars, source, split_perm, n_train, dataset>>

NextData == NewDataset \/ GetItemCall

SpecData == InitData /\ [][NextData]_vars

\* ------------------------------------------------- SGRAE.apply_loss alone
\* SGRAE.apply_loss called on one collated batch of 1..MaxBatch samples, in
\* any order, with lam 0 or positive.
StartCalls(c) ==
    /\ cfg = c
    /\ pc = "call"
    /\ phase = 0
    /\ epochs = 0
    /\ fitNo = 0
    /\ epoch = 0
    /\ lam = c.lam
    /\ early_stopping_count = 0
    /\ current_loss_min = Inf
    /\ params = [id |-> 0, vl |-> None]
    /\ ckpt = NoFile
    /\ x = BaseDataset(SourceData(MaxBatch))
    /\ target_embedding = << >>
    /\ remaining = {}
    /\ hist = NewHist
    /\ source = SourceData(MaxBatch)
    /\ split_perm = [i \in 0..(MaxBatch - 1) |-> i]
    /\ n_train = MaxBatch
    /\ dataset = NoDataset
    /\ item = NoItem
    /\ InitIO

InitLoss ==
    \E l \in {0, LAM} :
        StartCalls([cls |-> "SGRAE", epochs |-> 0, patience |-> 0, data_val |-> FALSE,
                    relax |-> FALSE, lam |-> l, batch_size |-> MaxBatch,
                    drop_lam |-> None, max_grae |-> None])

\* self.apply_loss(data, x_hat, z, idx) on a batch of k samples
ApplyLossCall ==
    /\ pc = "call"
    /\ cfg.cls = "SGRAE"
    /\ \E k \in 1..MaxBatch :
         \E batch \in Arrangements(DOMAIN x, k) :
            LET r == SGRAE_apply_loss(lam, Collate(x, batch)) IN
            hist' = [hist EXCEPT
                       !.raised = r.raised,
                       !.lastBatch = [lam |-> lam, epoch |-> None, n |-> k,
                                      cmp |-> {}, pairs |-> r.pairs]]
    /\ UNCHANGED <<cfg, pc, phase, epochs, fitNo, epoch, lam, early_stopping_count,
                   current_loss_min, params, ckpt, x, target_embedding, remaining>>
    /\ UNCHANGED <<dataVars, ioVars>>

SpecLoss == InitLoss /\ [][ApplyLossCall]_vars

\* ------------------------------------------------------------- transform
\* model.transform(ds): eval mode, the encoder batch by batch, the outputs
\* concatenated
TransformOn(ds) ==
    /\ torch_module # NoShape
    /\ out.calls < MaxCalls
    /\ training' = eval_mode(training)
    /\ out' = [kind |-> "transform", rows |-> transform(ds, cfg.batch_size, params),
               calls |-> out.calls + 1]
    /\ UNCHANGED <<fitVars, dataVars, torch_module, data_shape, optimizer, saved>>

\* transform(X) on a model whose fit has returned
Transform ==
    /\ pc = "idle"
    /\ fitNo >= 1
    /\ ~hist.raised
    /\ TransformOn(X)

\* transform alone: a fitted model of any batch size and a dataset of
\* 1..MaxBatch samples
Datasets ==
    {Collate(BaseDataset(SourceData(MaxBatch)), a) :
        a \in UNION {Arrangements(0..(MaxBatch - 1), n) : n \in 1..MaxBatch}}

InitTransform ==
    /\ cfg \in [cls : {"AE"}, epochs : {0}, patience : {0}, data_val : {FALSE},
                relax : {FALSE}, lam : {0}, batch_size : 1..(MaxBatch + 1),
                drop_lam : {None}, max_grae : {None}]
    /\ pc = "call"
    /\ phase = 0
    /\ epochs = 0
    /\ fitNo = 1
    /\ epoch = 0
    /\ lam = 0
    /\ early_stopping_count = 0
    /\ current_loss_min = Inf
    /\ params = [id |-> 1, vl |-> None]
    /\ ckpt = NoFile
    /\ x \in Datasets
    /\ target_embedding = << >>
    /\ remaining = {}
    /\ hist = NewHist
    /\ source = SourceData(MaxBatch)
    /\ split_perm = [i \in 0..(MaxBatch - 1) |-> i]
    /\ n_train = MaxBatch
    /\ dataset = NoDataset
    /\ item = NoItem
    /\ torch_module = XShape
    /\ data_shape = XShape
    /\ optimizer = TRUE
    /\ training = TRUE
    /\ saved = NoFile
    /\ out = NoOut

TransformCall ==
    /\ pc = "call"
    /\ TransformOn(x)

SpecTransform == InitTransform /\ [][TransformCall]_vars

\* ------------------------------------------- construct, fit, save, load
\* The life of AE objects of grae_models.py (no validation split, no
\* comet_exp) around one checkpoint path: a model is constructed, fitted on
\* datasets whose samples have one of the shapes of Shapes, saved and
\* loaded; a new construction replaces the model at hand.
Shapes == {<<4>>, <<5>>, <<1, 2, 2>>, <<2, 2>>}

\* parameters of which load_state_dict has overwritten some tensors only
Mixed == [id |-> -3, vl |-> None]

InitCalls ==
    StartCalls([cls |-> "AE", epochs |-> 1, patience |-> 0, data_val |-> FALSE,
                comet_exp |-> FALSE, relax |-> FALSE, lam |-> 0,
                batch_size |-> BatchSize, drop_lam |-> None, max_grae |-> None])

\* AE(...): a new instance
Construct ==
    /\ pc = "call"
    /\ cfg.cls = "AE"
    /\ torch_module' = NoShape
    /\ data_shape' = NoShape
    /\ optimizer' = FALSE
    /\ training' = FALSE
    /\ params' = [id |-> 0, vl |-> None]
    /\ out' = NoOut
    /\ UNCHANGED <<cfg, pc, phase, epochs, fitNo, epoch, lam, early_stopping_count,
                   current_loss_min, ckpt, x, target_embedding, remaining, hist>>
    /\ UNCHANGED <<dataVars, saved>>

\* The forward pass of a module built for the shape `module` on samples of
\* another shape is up to torch: it raises, or (a Linear layer on a tensor
\* with the same last dimension) it computes.
Forward(module, shape) ==
    IF module = shape THEN {"ok"} ELSE {"ok", "RuntimeError"}

\* AE.fit(x) on a dataset whose samples have the given shape
FitCall ==
    /\ pc = "call"
    /\ cfg.cls = "AE"
    /\ fitNo < MaxFits
    /\ fitNo' = fitNo + 1
    /\ \E shape \in Shapes :
         LET m == fetch_module(torch_module, shape) IN
         /\ data_shape' = shape
         /\ IF m.raised
            THEN /\ out' = [kind |-> "fit", rows |-> << >>, calls |-> 0, arg |-> shape,
                            raised |-> "Exception", optimizer |-> FALSE,
                            trained |-> FALSE]
                 /\ UNCHANGED <<torch_module, optimizer, training, params>>
            ELSE /\ torch_module' = m.module
                 /\ optimizer' = TRUE
                 /\ training' = TRUE
                 /\ \E f \in Forward(m.module, shape) :
                      IF f = "ok"
                      THEN /\ params' = [id |-> fitNo', vl |-> None]
                           /\ out' = [kind |-> "fit", rows |-> << >>, calls |-> 0,
                                      arg |-> shape, raised |-> "",
                                      optimizer |-> TRUE, trained |-> TRUE]
                      ELSE /\ UNCHANGED params
                           /\ out' = [kind |-> "fit", rows |-> << >>, calls |-> 0,
                                      arg |-> shape, raised |-> f,
                                      optimizer |-> TRUE, trained |-> FALSE]
    /\ UNCHANGED <<cfg, pc, phase, epochs, epoch, lam, early_stopping_count,
                   current_loss_min, ckpt, x, target_embedding, remaining, hist>>
    /\ UNCHANGED <<dataVars, saved>>

\* AE.save(path): the state dict of the module and self.data_shape
AE_save(module, p, shape) ==
    [id |-> p.id, vl |-> p.vl, data_shape |-> shape, tensors |-> module]

SaveCall ==
    /\ pc = "call"
    /\ cfg.cls = "AE"
    /\ IF torch_module = NoShape
       THEN /\ out' = [kind |-> "save", rows |-> << >>, calls |-> 0,
                       raised |-> "AttributeError"]
            /\ UNCHANGED saved
       ELSE /\ out' = [kind |-> "save", rows |-> << >>, calls |-> 0, raised |-> ""]
            /\ saved' = AE_save(torch_module, params, data_shape)
    /\ UNCHANGED <<fitVars, dataVars, torch_module, data_shape, optimizer, training>>

\* torch_module.load_state_dict(state): strict, it raises unless the tensors
\* of the file are those of the architecture of the module; before it
\* raises torch has copied the tensors whose shapes match.
load_state_dict(module, f, p) ==
    IF f.tensors = module
    THEN [raised |-> "", params |-> {load(f)}]
    ELSE [raised |-> "RuntimeError", params |-> {p, Mixed}]

\* AE.load(path)
LoadCall ==
    /\ pc = "call"
    /\ cfg.cls = "AE"
    /\ saved # NoFile
    /\ LET m == fetch_module(torch_module, saved.data_shape)
           before == [kind |-> "load", rows |-> << >>, calls |-> 0,
                      module |-> torch_module, meta |-> saved.data_shape,
                      params |-> params]
       IN IF m.raised
          THEN /\ out' = before @@ [raised |-> "Exception"]
               /\ UNCHANGED <<torch_module, params>>
          ELSE LET r == load_state_dict(m.module, saved, params) IN
               /\ torch_module' = m.module
               /\ params' \in r.params
               /\ out' = before @@ [raised |-> r.raised]
    /\ UNCHANGED <<cfg, pc, phase, epochs, fitNo, epoch, lam, early_stopping_count,
                   current_loss_min, ckpt, x, target_embedding, remaining, hist>>
    /\ UNCHANGED <<dataVars, data_shape, optimizer, training, saved>>

NextCalls == Construct \/ FitCall \/ SaveCall \/ LoadCall

SpecCalls == InitCalls /\ [][NextCalls]_vars

Init == InitAE \/ InitLegacy
Next == NextAE \/ NextLegacy \/ Transform
Spec == Init /\ [][Next]_vars

\* ================================================================ claims

\* C1: AE.fit on a new model with a validation split and patience p >= 1:
\* when the last strictly improving validation evaluation was at epoch k,
\* no epoch after k + p is entered and no mini-batch of one is processed,
\* and if k + p <= epochs the loop is left by the break right after epoch
\* k + p.
C1_StopsPatienceAfterLastImprovement ==
    (cfg.cls = "GRAEBase" /\ fitNo = 1 /\ cfg.data_val /\ cfg.patience >= 1
        /\ hist.lastImp # None) =>
        /\ pc = "train" => epoch <= hist.lastImp + cfg.patience
        /\ hist.lastBatch # NoBatch =>
               hist.lastBatch.epoch <= hist.lastImp + cfg.patience
        /\ (hist.exitEpoch # None /\ hist.lastImp + cfg.patience <= cfg.epochs) =>
               (hist.exitEpoch = hist.lastImp + cfg.patience /\ hist.broke)

\* the loop was left by the break, patience epochs after an improvement made
\* during training, with epochs of the budget left
C1_Witness ==
    /\ cfg.cls = "GRAEBase" /\ fitNo = 1 /\ cfg.data_val /\ cfg.patience >= 1
    /\ hist.lastImp >= 1
    /\ hist.broke
    /\ hist.exitEpoch = hist.lastImp + cfg.patience
    /\ hist.exitEpoch < cfg.epochs

\* C2: when AE.fit with a validation split returns, the parameters are those
\* of the earliest epoch (epoch 0 included) that attains the minimum
\* validation loss of the run, and of no later epoch.
C2_RestoresBestOfRun ==
    (cfg.cls = "GRAEBase" /\ pc = "idle" /\ fitNo >= 1 /\ cfg.data_val
        /\ hist.runMin # None /\ hist.runMin < Inf) =>
        params.id = hist.bestParams

\* C3: within a fit call, once lam is 0 it stays 0, and every mini-batch
\* processed from then on computes its loss with lam = 0.
C3_LamStaysZero ==
    [][(lam = 0 /\ pc # "idle") =>
          /\ lam' = 0
          /\ hist'.lastBatch # NoBatch => hist'.lastBatch.lam = 0]_vars

\* a mini-batch processed with lam = 0 by a model configured with lam > 0
C3_Witness ==
    /\ cfg.lam > 0
    /\ lam = 0
    /\ hist.lastBatch # NoBatch
    /\ hist.lastBatch.lam = 0

\* C4: GRAEBase with relax, lam > 0 and a validation split: the mini-batches
\* use the configured lam until the end of the first epoch at which the
\* counter has reached half the patience; at the end of that epoch lam is 0;
\* lam is not set to 0 while the counter has not reached half the patience.
C4_RelaxedOnceHalfPatienceReached ==
    (cfg.cls = "GRAEBase" /\ fitNo = 1 /\ cfg.relax /\ cfg.lam > 0 /\ cfg.data_val
        /\ cfg.patience >= 1) =>
        /\ (hist.lastBatch # NoBatch /\ ~hist.reachedHalf) =>
               hist.lastBatch.lam = cfg.lam
        /\ hist.reachedHalf => lam = 0
        /\ lam = 0 => hist.reachedHalf

\* C5: without a validation split AE.fit never stops early: for every
\* patience and every epochs, exactly epochs epochs are executed.
C5_NoValidationRunsAllEpochs ==
    (cfg.cls = "GRAEBase" /\ ~cfg.data_val /\ hist.exitEpoch # None) =>
        (hist.exitEpoch = cfg.epochs /\ ~hist.broke)

\* C6: at the start of every fit call, before its first validation
\* evaluation, the minimum validation loss is +infinity and the early
\* stopping counter is 0.
C6_TrainingStateResetAtFit ==
    (cfg.cls = "GRAEBase" /\ pc = "log0") =>
        (current_loss_min = Inf /\ early_stopping_count = 0)

\* C7: the first mini-batch of every fit call computes its loss with the
\* lam configured at construction.  (A GRAE of models.py whose drop_lam
\* gives 0 regularized epochs has no mini-batch before its phase switch and
\* is left out.)
C7_FirstBatchUsesConfiguredLam ==
    (hist.firstLam # None /\ ~(cfg.cls = "GRAE" /\ GRAE_drop_lam(cfg) = 0)) =>
        hist.firstLam = cfg.lam

\* C8: GRAEBase.compute_loss with lam > 0: the latent code at every batch
\* position is compared with the target row whose number is the index
\* yielded with the sample at that position, and that row is the embedding
\* of that same sample.
C8_LatentComparedWithOwnTarget ==
    cfg.cls = "GRAEBase" =>
        \A c \in hist.lastBatch.cmp : c.row = c.idx /\ c.of = c.s

\* a batch, regularized, whose order is not the order of the dataset
C8_Witness ==
    /\ cfg.cls = "GRAEBase"
    /\ hist.lastBatch.lam > 0
    /\ Cardinality(hist.lastBatch.cmp) >= 2
    /\ \E c \in hist.lastBatch.cmp : c.pos # c.idx

\* C9: the index BaseDataset yields with a sample of a 'train' or 'test'
\* split is the index of that sample in the unsplit source arrays.
C9_IndexIsSourceIndex ==
    (item # NoItem /\ dataset.split \in {"train", "test"}) =>
        (item.idx \in DOMAIN source /\ source[item.idx] = item.s)

\* C9 amended: the index yielded with a sample is the position of the sample
\* in the arrays of that dataset object: the source index for split 'none',
\* the position in the shuffled split for 'train' and 'test'; within one
\* dataset no two positions yield the same index.
C9_IndexIsPositionInSplit ==
    /\ item # NoItem =>
         /\ item.idx \in DOMAIN dataset.items
         /\ numpy(dataset.items)[item.idx] = item.s
         /\ dataset.split = "none" => source[item.idx] = item.s
    /\ \A i, j \in DOMAIN dataset.items :
         dataset.items[i].idx = dataset.items[j].idx => i = j

\* a sample of a train split yielded with an index that is not its index in
\* the source
C9_Witness ==
    /\ item # NoItem
    /\ dataset.split = "train"
    /\ source[item.idx] # item.s

\* C10: GRAE.fit of models.py on more than max_grae samples, whenever it
\* returns: the embedder ran on exactly max_grae samples, every mini-batch
\* with lam > 0 was drawn from those max_grae samples, and at least one
\* epoch without the geometric loss was trained on all len(X) samples.
C10_AlwaysTrainsOnAllSamples ==
    (cfg.cls = "GRAE" /\ cfg.max_grae # None /\ len(X) > cfg.max_grae
        /\ fitNo >= 1 /\ cfg.epochs >= 1 /\ cfg.lam > 0) =>
        /\ len(target_embedding) = cfg.max_grae
        /\ hist.lastBatch.lam > 0 => hist.lastBatch.n = cfg.max_grae
        /\ (pc = "idle" /\ ~hist.raised) => hist.phase2Epochs >= 1

\* C10 amended: ... and the epochs - self.drop_lam epochs that remain after
\* the self.drop_lam regularized ones are trained with lam = 0 on all len(X)
\* samples; when self.drop_lam is not below epochs (drop_lam None or 1)
\* there is no such epoch.
C10_TrainsOnAllSamplesForRemainingEpochs ==
    (cfg.cls = "GRAE" /\ cfg.max_grae # None /\ len(X) > cfg.max_grae
        /\ fitNo >= 1) =>
        /\ len(target_embedding) = cfg.max_grae
        /\ hist.lastBatch.lam > 0 => hist.lastBatch.n = cfg.max_grae
        /\ phase = 2 => (lam = 0 /\ len(x) = len(X))
        /\ (hist.lastBatch # NoBatch /\ phase = 1) => hist.lastBatch.n = cfg.max_grae
        /\ (pc = "idle" /\ ~hist.raised) =>
               hist.phase2Epochs =
                   IF GRAE_drop_lam(cfg) < cfg.epochs
                   THEN cfg.epochs - GRAE_drop_lam(cfg) ELSE 0

\* a fit that returned after regularized epochs on the subsample followed by
\* epochs on the whole dataset
C10_Witness ==
    /\ cfg.cls = "GRAE" /\ cfg.max_grae # None /\ len(X) > cfg.max_grae
    /\ cfg.lam > 0
    /\ fitNo = 1 /\ pc = "idle" /\ ~hist.raised
    /\ GRAE_drop_lam(cfg) >= 1
    /\ hist.phase2Epochs >= 1

\* C11: SGRAE.apply_loss with lam > 0 on a batch of n >= 2 samples, n even or
\* odd: no error; the pairs are exactly position j with position
\* j + floor(n/2) for j < floor(n/2); there are as many latent distances as
\* reference distances looked up in d_mx; when n is odd the last sample is
\* in no pair.
C11_PairsHalfBatchWithoutError ==
    (pc = "call" /\ cfg.cls = "SGRAE" /\ hist.lastBatch # NoBatch
        /\ hist.lastBatch.lam > 0 /\ hist.lastBatch.n >= 2) =>
        LET n == hist.lastBatch.n
            half == n \div 2
            P == hist.lastBatch.pairs
        IN /\ ~hist.raised
           /\ {<<p.p1, p.p2>> : p \in P} = {<<j, j + half>> : j \in 0..(half - 1)}
           /\ Cardinality({<<p.p1, p.p2>> : p \in P})
                  = Cardinality({<<p.i1, p.i2>> : p \in P})
           /\ n % 2 = 1 => \A p \in P : p.p1 # n - 1 /\ p.p2 # n - 1

\* C12: when AE.fit of grae_models.py has returned, there is no file
\* write_path/checkpoint.pt, whether the loop was left by the break or ran
\* all its epochs, and whether or not a checkpoint was saved in the call.
C12_NoCheckpointAfterFit ==
    (cfg.cls = "GRAEBase" /\ pc = "idle" /\ fitNo >= 1) => ckpt = NoFile

\* a fit that saved a checkpoint during training, stopped early and returned
C12_Witness ==
    /\ cfg.cls = "GRAEBase" /\ pc = "idle" /\ fitNo >= 1
    /\ hist.lastImp # None /\ hist.lastImp >= 1
    /\ hist.broke

\* C13: transform of a fitted model on a dataset of n >= 1 samples with any
\* batch size b >= 1 returns exactly n rows, and row i is the encoder output
\* for the sample at position i of the dataset (batches in the order of the
\* dataset, the last partial batch included, outputs concatenated in order).
C13_TransformRowPerSample ==
    (pc = "call" /\ out.kind = "transform") =>
        /\ DOMAIN out.rows = DOMAIN x
        /\ \A i \in DOMAIN x : out.rows[i] = [s |-> x[i].s, by |-> params.id]

\* a transform whose last batch is a partial one, after a full one
C13_Witness ==
    /\ pc = "call" /\ out.kind = "transform"
    /\ len(x) > cfg.batch_size
    /\ len(x) % cfg.batch_size # 0
    /\ len(out.rows) = len(x)

\* C14: transform changes no parameter and no training state (lam, counter,
\* minimum loss), leaves the module in evaluation mode, and a second call on
\* the same input returns what the first returned.
C14_TransformIdempotent ==
    [][(pc = "idle" /\ pc' = "idle" /\ out'.kind = "transform") =>
          /\ params' = params
          /\ lam' = lam
          /\ early_stopping_count' = early_stopping_count
          /\ current_loss_min' = current_loss_min
          /\ training' = FALSE
          /\ out.kind = "transform" => out'.rows = out.rows]_vars

\* two transform calls in a row on a model that was trained
C14_Witness ==
    /\ pc = "idle" /\ fitNo >= 1
    /\ out.kind = "transform" /\ out.calls = 2
    /\ ~training
    /\ params.id >= 1

\* C15: a fit with a logging sink (comet_exp) goes through the training of
\* the same fit without one: the mini-batches of every epoch are ordered by
\* the same draw of the seeded random source, the draw the run without a
\* sink uses for that epoch (one per earlier training epoch and one per
\* earlier validation evaluation).
C15_SinkLeavesShufflingAlone ==
    (cfg.cls = "GRAEBase" /\ pc = "train") =>
        LET v == IF cfg.data_val THEN 1 ELSE 0
        IN hist.shuffle = (epoch - 1) * (1 + v) + v

\* C16: every fit call on a dataset whose samples have a rank other than 1
\* or 3 ends in the configuration error, raised before an optimizer is
\* created and before any mini-batch is processed, whatever the model went
\* through before (new, fitted, initialised by load).
C16_BadRankRejectedAtOnce ==
    (pc = "call" /\ out.kind = "fit" /\ Len(out.arg) \notin {1, 3}) =>
        /\ out.raised = "Exception"
        /\ ~out.optimizer
        /\ ~out.trained

\* C17: load on a model whose module is initialised, of a checkpoint whose
\* stored sample shape is not the shape the module was built for, ends in a
\* mismatch error and leaves the parameters as they were.
C17_LoadMismatchRaises ==
    (pc = "call" /\ out.kind = "load" /\ out.module # NoShape
        /\ out.meta # out.module) =>
        /\ out.raised = "RuntimeError"
        /\ params = out.params

\* C18: every checkpoint written by save holds the sample shape the
\* architecture of the saved module was built from, and its load into a
\* newly constructed model rebuilds that architecture and restores the
\* saved parameters.
C18_SaveStoresShapeOfModule ==
    /\ (pc = "call" /\ saved # NoFile) => saved.data_shape = saved.tensors
    /\ (pc = "call" /\ out.kind = "load" /\ out.module = NoShape) =>
           /\ out.raised = ""
           /\ torch_module = saved.tensors
           /\ params = load(saved)

\* C19: a validation evaluation of log_metrics_val either (loss strictly
\* below the running minimum) sets the minimum to the loss, the counter to 0
\* and overwrites the checkpoint file with the current parameters, or
\* (otherwise, a loss equal to the minimum included) adds 1 to the counter
\* and leaves the minimum and the file alone.
C19_EvaluationSavesOrCounts ==
    [][(cfg.cls = "GRAEBase" /\ cfg.data_val
          /\ (pc = "log0" \/ (pc = "train" /\ remaining = {}))) =>
          IF params'.vl < current_loss_min
          THEN /\ current_loss_min' = params'.vl
               /\ early_stopping_count' = 0
               /\ ckpt' = params'
          ELSE /\ current_loss_min' = current_loss_min
               /\ early_stopping_count' = early_stopping_count + 1
               /\ ckpt' = ckpt]_vars

\* C19, its conclusion: the running minimum never increases, and once a
\* minimum has been recorded the checkpoint file of a running fit holds the
\* parameters at which the running minimum was attained.
C19_CheckpointHoldsRunningMinimum ==
    /\ C19_EvaluationSavesOrCounts
    /\ [][current_loss_min' <= current_loss_min]_vars
    /\ []((cfg.cls = "GRAEBase" /\ cfg.data_val /\ pc \in {"train", "restore"}
            /\ current_loss_min < Inf) =>
              (ckpt # NoFile /\ ckpt.vl = current_loss_min))

\* C20: GRAEBase with relax, lam > 0 and a validation split, for every
\* patience (>= 1) and every sequence of validation losses: whenever the
\* loop is left by the early stopping break, lam has been set to 0 before.
C20_RelaxedBeforeStopped ==
    (cfg.cls = "GRAEBase" /\ fitNo = 1 /\ cfg.relax /\ cfg.lam > 0 /\ cfg.data_val
        /\ cfg.patience >= 1 /\ hist.broke) =>
        lam = 0

\* C21: GRAE.fit of models.py, regularized phase: every index delivered in a
\* mini-batch is a row number of self.z (the lookup raises no error) and
\* that row is the embedding of the sample carrying the index, also when
\* the dataset was subsampled to max_grae samples.
C21_IndexIsRowOfOwnEmbedding ==
    (cfg.cls = "GRAE" /\ fitNo >= 1) =>
        /\ ~hist.raised
        /\ \A c \in hist.lastBatch.cmp :
               c.row \in DOMAIN target_embedding /\ c.of = c.s

\* C22: SGRAE with an integer drop_lam = d, 0 <= d <= epochs: the
\* mini-batches of the epochs 0..d-1 use the configured lam and those of
\* every later epoch use lam = 0; with drop_lam None every mini-batch uses
\* the configured lam.
C22_LamDroppedAfterDropLamEpochs ==
    (cfg.cls = "SGRAE" /\ fitNo = 1 /\ hist.lastBatch # NoBatch) =>
        IF cfg.drop_lam = None
        THEN hist.lastBatch.lam = cfg.lam /\ lam = cfg.lam
        ELSE cfg.drop_lam <= cfg.epochs =>
                 hist.lastBatch.lam =
                     IF hist.lastBatch.epoch < cfg.drop_lam THEN cfg.lam ELSE 0

\* C23: at every early stopping test of AE.fit the counter is at most the
\* patience, for any sequence of fit calls and of validation losses.
C23_CounterAtMostPatience ==
    [][(cfg.cls = "GRAEBase" /\ pc = "train" /\ remaining = {}) =>
          early_stopping_count' <= cfg.patience]_vars

\* C24: when no checkpoint was saved during a fit call, the parameters after
\* the call are those the last executed epoch produced, whatever file was
\* at write_path/checkpoint.pt when the call started.
C24_RestoresOnlyOwnCheckpoint ==
    (cfg.cls = "GRAEBase" /\ pc = "idle" /\ fitNo >= 1 /\ hist.lastImp = None) =>
        params.id = hist.exitEpoch * len(Batches(len(X), cfg.batch_size))

\* C25: GRAEBase with relax and no validation split, any patience >= 0: the
\* counter and the minimum loss are never modified and every mini-batch of
\* every epoch uses the configured lam.
C25_NoRelaxationWithoutValidation ==
    (cfg.cls = "GRAEBase" /\ fitNo = 1 /\ cfg.relax /\ ~cfg.data_val) =>
        /\ early_stopping_count = 0
        /\ current_loss_min = Inf
        /\ hist.lastBatch # NoBatch => hist.lastBatch.lam = cfg.lam

====
